---- MODULE Spec2Model ----
(***************************************************************************)
(* Model of the useRoomSystem hook (src/src/hooks/useRoomSystem.ts): the   *)
(* RoomSystemState it owns, the turn-engine callbacks (initializeGameState,*)
(* playCard, drawCard, callUno) and the room / game event listeners.       *)
(*                                                                         *)
(* Every setState updater is one atomic step (the hook runs on a single    *)
(* thread and React applies updaters one after another).  JavaScript       *)
(* objects are modelled by value: the updaters mutate arrays and player    *)
(* objects in place through a shallow copy, and the value left in the      *)
(* state after one run of the updater is what the operators below compute. *)
(* Indices are 0-based as in the source; a sequence s is read at s[i + 1]. *)
(***************************************************************************)
EXTENDS Integers, Sequences, FiniteSets, TLC

VARIABLES
    currentRoom,      \* RoomSystemState.currentRoom  (NoRoom models null)
    currentPlayerId,  \* RoomSystemState.currentPlayerId (NullId models null)
    isHost,           \* RoomSystemState.isHost
    gameState,        \* RoomSystemState.gameState (NoGame models null)
    error,            \* RoomSystemState.error (NoError models null)
    loading,          \* RoomSystemState.loading
    isConnected,      \* RoomSystemState.isConnected
    activeRooms,      \* RoomSystemState.activeRooms
    inflight,         \* the transport requests awaiting their response, oldest first
    deck,             \* the deck shuffleDeck(createDeck()) handed to the last initializeGameState
    call              \* the last callback invoked or event applied, with its arguments and return value

vars == <<currentRoom, currentPlayerId, isHost, gameState, error, loading,
          isConnected, activeRooms, inflight, deck, call>>

-----------------------------------------------------------------------------
(* Bounds of the model *)

\* Number of cards of the deck createDeck() builds in the dealing model.
DeckSize == 8
\* Number of cards of the deck the turn-engine model plays with.
GameDeckSize == 3
\* Largest count passed to drawCard.
MaxCount == 2
\* playCard is not offered once discardPile holds this many cards.
MaxDiscard == 3
\* PLAYER_JOINED is not offered once the players list holds this many entries.
MaxRoomPlayers == 3
\* PLAYER_LEFT is not offered once currentPlayers and the length of the
\* players list are this far apart.
MaxDrift == 2
MaxEndgameDiscard == 4
MaxInflight == 2
MaxStarting == 1
MaxLobbyPlayers == 2
\* Calls of getActiveRooms awaiting their response
MaxLoading == 1

\* Cards dealt to each player (the literal 7 of the dealing loop).
HandSize == 7

-----------------------------------------------------------------------------
(* Null values *)

NoRoom == [null |-> TRUE]
NoGame == [null |-> TRUE]
NullId == "null"
NoError == "null"
Undefined == "undefined"
\* deck[i] for an index past the end of the array
UndefinedCard == [id |-> 0, type |-> Undefined]
NoCall == [op |-> "none"]

-----------------------------------------------------------------------------
(* Generic helpers for JavaScript array methods *)

\* Array.prototype.find by id: the 1-based position of the first element of s
\* whose id is `id`, 0 when there is none.
RECURSIVE FindFrom(_, _, _)
FindFrom(s, id, i) ==
    IF i > Len(s) THEN 0
    ELSE IF s[i].id = id THEN i
    ELSE FindFrom(s, id, i + 1)

FindIndex(s, id) == FindFrom(s, id, 1)

\* Array.prototype.filter(x => x.id !== id)
RemoveId(s, id) == SelectSeq(s, LAMBDA x : x.id # id)

\* The elements of a sequence, as a set
Range(s) == {s[i] : i \in DOMAIN s}

\* Number of positions of s that hold an element with this id
CountId(s, id) == Cardinality({i \in DOMAIN s : s[i].id = id})

\* All orderings of a finite set
RECURSIVE Perms(_)
Perms(S) ==
    IF S = {} THEN {<<>>}
    ELSE UNION {{<<x>> \o p : p \in Perms(S \ {x})} : x \in S}

Min(a, b) == IF a < b THEN a ELSE b

Abs(a) == IF a < 0 THEN 0 - a ELSE a

-----------------------------------------------------------------------------
(* Cards and decks.  ../utils/cardUtils and ../types/Card are not part of   *)
(* the sources at hand: the deck is modelled from the data model of the    *)
(* specification (unique ids, a type per card).                            *)

\* The type of the card with this id: one action card, one wild card, the
\* rest number cards.
CardTypeOf(i) == IF i = 1 THEN "skip" ELSE IF i = 2 THEN "wild" ELSE "number"

MakeCard(i) == [id |-> i, type |-> CardTypeOf(i)]

\* createDeck(): the canonical deck, each id once.
createDeck == [i \in 1..DeckSize |-> MakeCard(i)]

\* shuffleDeck(deck): every permutation of the deck is a possible result.
shuffleDeck(d) == Perms(Range(d))

\* The deck of the turn-engine model.
gameDeck == [i \in 1..GameDeckSize |-> MakeCard(i)]

\* A card that belongs to no pile and no hand of the game.
ForeignCard == [id |-> GameDeckSize + 1, type |-> "number"]

-----------------------------------------------------------------------------
(* initializeGameState (lines 45-91) *)

\* deck[i] of the source (0-based), undefined past the end
At(d, i) == IF i >= 0 /\ i < Len(d) THEN d[i + 1] ELSE UndefinedCard

\* room.players.map(...): a fresh Player per RoomPlayer, in roster order
ToGamePlayers(roomPlayers) ==
    [j \in DOMAIN roomPlayers |->
        [id |-> roomPlayers[j].id, cards |-> <<>>, hasCalledUno |-> FALSE]]

\* players.forEach(player => { if (cardIndex < deck.length) push(deck[cardIndex++]) })
\* from the j-th player on; st is [ps |-> players, ci |-> cardIndex]
RECURSIVE DealRound(_, _, _)
DealRound(st, d, j) ==
    IF j > Len(st.ps) THEN st
    ELSE DealRound(
            IF st.ci < Len(d)
            THEN [ps |-> [st.ps EXCEPT ![j].cards = Append(@, d[st.ci + 1])],
                  ci |-> st.ci + 1]
            ELSE st,
            d, j + 1)

\* for (let i = 0; i < 7; i++) { players.forEach(...) }
RECURSIVE DealLoop(_, _, _)
DealLoop(st, d, i) ==
    IF i >= HandSize THEN st
    ELSE DealLoop(DealRound(st, d, 1), d, i + 1)

\* while (topCardIndex < deck.length && deck[topCardIndex].type !== 'number') topCardIndex++
RECURSIVE ScanTop(_, _)
ScanTop(d, t) ==
    IF t < Len(d) /\ d[t + 1].type # "number" THEN ScanTop(d, t + 1) ELSE t

\* deck.filter((_, index) => index !== topCardIndex && index >= cardIndex), from index i on
RECURSIVE RemainingFrom(_, _, _, _)
RemainingFrom(d, topCardIndex, cardIndex, i) ==
    IF i >= Len(d) THEN <<>>
    ELSE (IF i # topCardIndex /\ i >= cardIndex THEN <<d[i + 1]>> ELSE <<>>)
         \o RemainingFrom(d, topCardIndex, cardIndex, i + 1)

\* The GameState initializeGameState builds from the room and the shuffled deck d.
initializeGameState(room, d) ==
    LET dealt == DealLoop([ps |-> ToGamePlayers(room.players), ci |-> 0], d, 0)
        cardIndex == dealt.ci
        topCardIndex == ScanTop(d, cardIndex)
        topCard == IF At(d, topCardIndex) # UndefinedCard
                   THEN At(d, topCardIndex)
                   ELSE At(d, cardIndex)
        remainingDeck == RemainingFrom(d, topCardIndex, cardIndex, 0)
    IN  [players |-> dealt.ps,
         currentPlayerIndex |-> 0,
         direction |-> "clockwise",
         topCard |-> topCard,
         drawPile |-> remainingDeck,
         discardPile |-> <<topCard>>,
         gamePhase |-> "playing",
         isBlockAllActive |-> FALSE,
         wildColor |-> Undefined,
         winner |-> Undefined]

-----------------------------------------------------------------------------
(* playCard (lines 225-266) *)

\* playCardUpdate with the turn advanced after a winning play as well.
playCardUpdate_AlwaysAdvance(gs, playerId, card, chosenColor) ==
    LET pi == FindIndex(gs.players, playerId)
        ci == gs.currentPlayerIndex + 1
    IN  IF pi = 0 THEN gs
        ELSE IF ci \notin DOMAIN gs.players THEN gs
        ELSE IF gs.players[pi].id # gs.players[ci].id THEN gs
        ELSE
            LET cards == RemoveId(gs.players[pi].cards, card.id)
                played == [gs EXCEPT
                    !.players[pi].cards = cards,
                    !.discardPile = Append(@, card),
                    !.topCard = card,
                    !.wildColor =
                        IF card.type = "wild" \/ card.type = "wild-draw-four"
                        THEN (IF chosenColor # Undefined THEN chosenColor ELSE "red")
                        ELSE Undefined,
                    !.currentPlayerIndex =
                        (gs.currentPlayerIndex + 1) % Len(gs.players)]
            IN  IF Len(cards) = 0
                THEN [played EXCEPT !.gamePhase = "finished",
                                    !.winner = gs.players[pi].id]
                ELSE played

\* The setState updater of playCard applied to a non-null GameState gs.
\* winner holds a reference to the winning Player object; it is modelled by
\* that player's id.  chosenColor is Undefined when the argument is omitted.
playCardUpdate(gs, playerId, card, chosenColor) ==
    LET pi == FindIndex(gs.players, playerId)
        ci == gs.currentPlayerIndex + 1
    IN  IF pi = 0 THEN gs
        ELSE IF ci \notin DOMAIN gs.players THEN gs   \* currentPlayer.id throws: no update
        ELSE IF gs.players[pi].id # gs.players[ci].id THEN gs
        ELSE
            LET cards == RemoveId(gs.players[pi].cards, card.id)
                played == [gs EXCEPT
                    !.players[pi].cards = cards,
                    !.discardPile = Append(@, card),
                    !.topCard = card,
                    !.wildColor =
                        IF card.type = "wild" \/ card.type = "wild-draw-four"
                        THEN (IF chosenColor # Undefined THEN chosenColor ELSE "red")
                        ELSE Undefined]
            IN  IF Len(cards) = 0
                THEN [played EXCEPT !.gamePhase = "finished",
                                    !.winner = gs.players[pi].id]
                ELSE [played EXCEPT !.currentPlayerIndex =
                        (gs.currentPlayerIndex + 1) % Len(gs.players)]

-----------------------------------------------------------------------------
(* drawCard (lines 268-295) *)

\* for (i < count) if (drawPile.length > 0) { card = drawPile.pop(); push; push }
\* st is [gs |-> GameState, drawn |-> drawnCards], pi the player's position
RECURSIVE DrawLoop(_, _, _, _)
DrawLoop(st, pi, count, i) ==
    IF i >= count THEN st
    ELSE IF Len(st.gs.drawPile) > 0
    THEN LET n == Len(st.gs.drawPile)
             card == st.gs.drawPile[n]
         IN  DrawLoop([gs |-> [st.gs EXCEPT
                                 !.drawPile = SubSeq(@, 1, n - 1),
                                 !.players[pi].cards = Append(@, card)],
                       drawn |-> Append(st.drawn, card)],
                      pi, count, i + 1)
    ELSE DrawLoop(st, pi, count, i + 1)

\* drawCardUpdate with the loop bound off by one (i <= count).
drawCardUpdate_OffByOne(gs, playerId, count) ==
    LET pi == FindIndex(gs.players, playerId)
    IN  IF pi = 0 THEN [gs |-> gs, drawn |-> <<>>]
        ELSE DrawLoop([gs |-> gs, drawn |-> <<>>], pi, count + 1, 0)

\* drawCardUpdate with a turn check: only players[currentPlayerIndex] draws.
drawCardUpdate_TurnCheck(gs, playerId, count) ==
    LET pi == FindIndex(gs.players, playerId)
    IN  IF pi = 0 \/ pi # gs.currentPlayerIndex + 1
        THEN [gs |-> gs, drawn |-> <<>>]
        ELSE DrawLoop([gs |-> gs, drawn |-> <<>>], pi, count, 0)

\* The setState updater of drawCard applied to a non-null GameState gs:
\* the new GameState and the cards pushed to drawnCards.
drawCardUpdate(gs, playerId, count) ==
    LET pi == FindIndex(gs.players, playerId)
    IN  IF pi = 0 THEN [gs |-> gs, drawn |-> <<>>]
        ELSE DrawLoop([gs |-> gs, drawn |-> <<>>], pi, count, 0)

-----------------------------------------------------------------------------
(* callUno (lines 297-315) *)

\* callUnoUpdate without the test of the hand size.
callUnoUpdate_AnyHand(gs, playerId) ==
    LET pi == FindIndex(gs.players, playerId)
    IN  IF pi # 0
        THEN [gs EXCEPT !.players[pi].hasCalledUno = TRUE]
        ELSE gs

\* The setState updater of callUno applied to a non-null GameState gs.
callUnoUpdate(gs, playerId) ==
    LET pi == FindIndex(gs.players, playerId)
    IN  IF pi # 0 /\ Len(gs.players[pi].cards) = 1
        THEN [gs EXCEPT !.players[pi].hasCalledUno = TRUE]
        ELSE gs

-----------------------------------------------------------------------------
(* The room event listener (lines 341-397) *)

\* case 'PLAYER_JOINED' applied to a non-null room
playerJoinedUpdate(room, player) ==
    [room EXCEPT !.players = Append(@, player),
                 !.currentPlayers = @ + 1]

\* case 'PLAYER_LEFT' applied to a non-null room
playerLeftUpdate(room, playerId) ==
    [room EXCEPT !.players = RemoveId(@, playerId),
                 !.currentPlayers = @ - 1]

\* case 'HOST_CHANGED' applied to a non-null room
hostChangedUpdate(room, newHostId) ==
    [room EXCEPT !.hostId = newHostId,
                 !.players = [j \in DOMAIN room.players |->
                                [room.players[j] EXCEPT
                                    !.isHost = (room.players[j].id = newHostId)]]]

\* case 'GAME_STARTED' applied to a non-null room
gameStartedUpdate(room) ==
    [room EXCEPT !.status = "playing", !.gameInProgress = TRUE]

\* kickedUpdate with the game left in place.
kickedUpdate_KeepsGame(prev) ==
    [prev EXCEPT !.currentRoom = NoRoom,
                 !.currentPlayerId = NullId,
                 !.isHost = FALSE,
                 !.error = "kicked"]

\* case 'KICKED_FROM_ROOM' (lines 383-391)
kickedUpdate(prev) ==
    [prev EXCEPT !.currentRoom = NoRoom,
                 !.currentPlayerId = NullId,
                 !.isHost = FALSE,
                 !.gameState = NoGame,
                 !.error = "kicked"]

\* The setState updater of the room listener: the RoomSystemState that follows
\* prev when event is applied.
roomEventReducer(prev, event) ==
    CASE event.type = "PLAYER_JOINED" ->
            IF prev.currentRoom # NoRoom
            THEN [prev EXCEPT !.currentRoom = playerJoinedUpdate(@, event.player)]
            ELSE prev
      [] event.type = "PLAYER_LEFT" ->
            IF prev.currentRoom # NoRoom
            THEN [prev EXCEPT !.currentRoom = playerLeftUpdate(@, event.playerId)]
            ELSE prev
      [] event.type = "HOST_CHANGED" ->
            LET newIsHost == (prev.currentPlayerId = event.newHostId)
            IN  IF prev.currentRoom # NoRoom
                THEN [prev EXCEPT !.currentRoom = hostChangedUpdate(@, event.newHostId),
                                  !.isHost = newIsHost]
                ELSE [prev EXCEPT !.isHost = newIsHost]
      [] event.type = "GAME_STARTED" ->
            IF prev.currentRoom # NoRoom
            THEN [prev EXCEPT !.currentRoom = gameStartedUpdate(@)]
            ELSE prev
      [] event.type = "KICKED_FROM_ROOM" -> kickedUpdate(prev)
      [] OTHER -> prev

-----------------------------------------------------------------------------
(* The game event listener (lines 400-418) and the global one (325-338) *)

\* gameEventReducer with CARD_DRAWN taken for a stale snapshot and dropped.
gameEventReducer_DropOnDraw(prev, event) ==
    CASE event.type = "GAME_STATE_UPDATE" ->
            [prev EXCEPT !.gameState = event.gameState]
      [] event.type = "CARD_DRAWN" -> [prev EXCEPT !.gameState = NoGame]
      [] OTHER -> prev

\* The setState updater of the game listener.
gameEventReducer(prev, event) ==
    CASE event.type = "GAME_STATE_UPDATE" ->
            [prev EXCEPT !.gameState = event.gameState]
      [] OTHER -> prev

\* The global listener: the state that follows prev (no setState call at all
\* for a tag without a case).
globalEventReducer(prev, event) ==
    CASE event.type = "ROOMS_UPDATED" ->
            [prev EXCEPT !.activeRooms = event.rooms]
      [] event.type = "CONNECTION_FAILED" ->
            [prev EXCEPT !.error = "connection lost", !.isConnected = FALSE]
      [] OTHER -> prev

-----------------------------------------------------------------------------
(* createRoom (109-141), joinRoom (144-176), leaveRoom (179-188) and        *)
(* startGame (200-213)                                                      *)

\* The first setState of createRoom and joinRoom (lines 110, 145)
requestStarted(prev) == [prev EXCEPT !.loading = TRUE, !.error = NoError]

\* The state after the promise of socketService.createRoom or joinRoom has
\* settled with result; asHost is true for createRoom.  outcome "throw" is a
\* rejected promise.
roomRequestSettled(prev, result, asHost, fallback) ==
    IF result.outcome = "success"
    THEN [prev EXCEPT !.currentRoom = result.room,
                      !.currentPlayerId = result.playerId,
                      !.isHost = asHost,
                      !.loading = FALSE,
                      !.gameState = NoGame]
    ELSE IF result.outcome = "failure"
    THEN [prev EXCEPT !.loading = FALSE,
                      !.error = IF result.error # Undefined
                                THEN result.error ELSE fallback]
    ELSE [prev EXCEPT !.loading = FALSE, !.error = "connection error"]

createRoomSettled(prev, result) ==
    roomRequestSettled(prev, result, TRUE, "cannot create room")

\* joinRoomSettled with the flag of createRoom.
joinRoomSettled_AsHost(prev, result) ==
    roomRequestSettled(prev, result, TRUE, "cannot join room")

joinRoomSettled(prev, result) ==
    roomRequestSettled(prev, result, FALSE, "cannot join room")

\* The setState updater of leaveRoom
leaveRoomUpdate(prev) ==
    [prev EXCEPT !.currentRoom = NoRoom,
                 !.currentPlayerId = NullId,
                 !.isHost = FALSE,
                 !.gameState = NoGame]

\* The setState updater of clearError (line 319)
clearErrorUpdate(prev) == [prev EXCEPT !.error = NoError]

\* The setState updater of checkConnection (lines 33-36); connected is what
\* socketService.isSocketConnected() returns.
checkConnectionUpdate(prev, connected) == [prev EXCEPT !.isConnected = connected]

\* The setState updaters of loadActiveRooms (lines 96, 102)
activeRoomsUpdate(prev, rooms) == [prev EXCEPT !.activeRooms = rooms]

\* The guard of startGame with the host test left out.
startGameGuard_RoomOnly(st) == st.currentRoom # NoRoom

\* line 201: if (state.isHost && state.currentRoom)
startGameGuard(st) == st.isHost /\ st.currentRoom # NoRoom

-----------------------------------------------------------------------------
(* The state of the hook as one record, and its replacement by setState *)

State ==
    [currentRoom |-> currentRoom,
     currentPlayerId |-> currentPlayerId,
     isHost |-> isHost,
     activeRooms |-> activeRooms,
     loading |-> loading,
     error |-> error,
     isConnected |-> isConnected,
     gameState |-> gameState]

SetState(next) ==
    /\ currentRoom' = next.currentRoom
    /\ currentPlayerId' = next.currentPlayerId
    /\ isHost' = next.isHost
    /\ gameState' = next.gameState
    /\ error' = next.error
    /\ loading' = next.loading
    /\ isConnected' = next.isConnected
    /\ activeRooms' = next.activeRooms

-----------------------------------------------------------------------------
(* Inputs *)

\* Ids of the players that the transport may name; "p1" is the local client
\* when it is in a room.
PlayerIds == {"p1", "p2", "p3"}
\* An id no room member and no game player has.
UnknownId == "zz"
LocalId == "p1"

Colors == {Undefined, "blue"}

\* The RoomPlayer objects PLAYER_JOINED may carry
JoiningPlayers == {[id |-> p, isHost |-> FALSE] : p \in PlayerIds}

\* The cards a caller may hand to playCard
PlayableCards == Range(gameDeck) \cup {ForeignCard}

\* A room as the transport returns it: the roster in order, the first member host.
MakeRoom(ids, status) ==
    [hostId |-> IF Len(ids) > 0 THEN ids[1] ELSE NullId,
     currentPlayers |-> Len(ids),
     players |-> [j \in DOMAIN ids |-> [id |-> ids[j], isHost |-> (j = 1)]],
     status |-> status,
     gameInProgress |-> (status = "playing")]

-----------------------------------------------------------------------------
(* GameState snapshots: well-formed states of a game of three players over  *)
(* gameDeck, as a peer broadcasts them and GAME_STATE_UPDATE installs them  *)
(* (line 404).  Each card lies in one hand or one pile.                     *)

GameRoster == <<"p1", "p2", "p3">>
DrawLoc == Len(GameRoster) + 1
DiscardLoc == Len(GameRoster) + 2

\* The cards that loc places at location l, in deck order
CardsAt(loc, l) == SelectSeq(gameDeck, LAMBDA c : loc[c.id] = l)

Snapshot(loc, dir, idx) ==
    LET discard == CardsAt(loc, DiscardLoc)
    IN  [players |-> [j \in DOMAIN GameRoster |->
                        [id |-> GameRoster[j],
                         cards |-> CardsAt(loc, j),
                         hasCalledUno |-> FALSE]],
         currentPlayerIndex |-> idx,
         direction |-> dir,
         topCard |-> discard[Len(discard)],
         drawPile |-> CardsAt(loc, DrawLoc),
         discardPile |-> discard,
         gamePhase |-> "playing",
         isBlockAllActive |-> FALSE,
         wildColor |-> Undefined,
         winner |-> Undefined]

Snapshots ==
    {Snapshot(loc, dir, idx) :
        loc \in {l \in [1..GameDeckSize -> 1..DiscardLoc] :
                    \E i \in 1..GameDeckSize : l[i] = DiscardLoc},
        dir \in {"clockwise", "counter-clockwise"},
        idx \in 0..(Len(GameRoster) - 1)}

-----------------------------------------------------------------------------
(* The turn engine: playCard, drawCard and callUno on a game in progress *)

playCard(playerId, card, chosenColor) ==
    /\ gameState' =
         IF gameState = NoGame \/ currentPlayerId = NullId
         THEN gameState                                  \* line 226: return
         ELSE playCardUpdate(gameState, playerId, card, chosenColor)
    /\ call' = [op |-> "playCard", playerId |-> playerId, card |-> card,
                chosenColor |-> chosenColor, ret |-> Undefined]
    /\ UNCHANGED <<currentRoom, currentPlayerId, isHost, error, loading,
                   isConnected, activeRooms, inflight, deck>>

drawCard(playerId, count) ==
    LET guarded == gameState = NoGame \/ currentPlayerId = NullId
        res == IF guarded
               THEN [gs |-> gameState, drawn |-> <<>>]  \* line 269: return []
               ELSE drawCardUpdate(gameState, playerId, count)
    IN  /\ gameState' = res.gs
        /\ call' = [op |-> "drawCard", playerId |-> playerId, count |-> count,
                    ret |-> res.drawn]
        /\ UNCHANGED <<currentRoom, currentPlayerId, isHost, error, loading,
                   isConnected, activeRooms, inflight, deck>>

callUno(playerId) ==
    /\ gameState' =
         IF gameState = NoGame
         THEN gameState                                  \* line 298: return
         ELSE callUnoUpdate(gameState, playerId)
    /\ call' = [op |-> "callUno", playerId |-> playerId, ret |-> Undefined]
    /\ UNCHANGED <<currentRoom, currentPlayerId, isHost, error, loading,
                   isConnected, activeRooms, inflight, deck>>

\* A caller chooses a colour only with a wild card.
PlayCard ==
    /\ gameState # NoGame => Len(gameState.discardPile) < MaxDiscard
    /\ \E playerId \in PlayerIds \cup {UnknownId}, card \in PlayableCards :
         \E chosenColor \in IF card.type = "wild" THEN Colors ELSE {Undefined} :
             playCard(playerId, card, chosenColor)

DrawCard ==
    \E playerId \in PlayerIds \cup {UnknownId}, count \in 0..MaxCount :
        drawCard(playerId, count)

CallUno ==
    \E playerId \in PlayerIds \cup {UnknownId} : callUno(playerId)

\* The client in a room whose game is under way, or out of any room (after
\* leaveRoom or a kick) when a snapshot arrives: in both cases the game
\* listener has installed a snapshot.
InitGame ==
    /\ \/ /\ currentRoom = MakeRoom(GameRoster, "playing")
          /\ currentPlayerId = LocalId
          /\ isHost = TRUE
       \/ /\ currentRoom = NoRoom
          /\ currentPlayerId = NullId
          /\ isHost = FALSE
    /\ gameState \in Snapshots
    /\ error = NoError
    /\ loading = FALSE
    /\ isConnected = TRUE
    /\ activeRooms = <<>>
    /\ inflight = <<>>
    /\ deck = <<>>
    /\ call = NoCall

NextGame == PlayCard \/ DrawCard \/ CallUno

SpecGame == InitGame /\ [][NextGame]_vars

-----------------------------------------------------------------------------
(* The end of a game: the calls that follow a win *)

PlayCardEndgame ==
    /\ gameState # NoGame => Len(gameState.discardPile) < MaxEndgameDiscard
    /\ \E playerId \in PlayerIds \cup {UnknownId}, card \in PlayableCards :
         \E chosenColor \in IF card.type = "wild" THEN Colors ELSE {Undefined} :
             playCard(playerId, card, chosenColor)

\* The client in a room whose game is one play from its end: the current
\* player holds a single card.
InitEndgame ==
    /\ currentRoom = MakeRoom(GameRoster, "playing")
    /\ currentPlayerId = LocalId
    /\ isHost = TRUE
    /\ gameState \in {gs \in Snapshots :
                        Len(gs.players[gs.currentPlayerIndex + 1].cards) = 1}
    /\ error = NoError
    /\ loading = FALSE
    /\ isConnected = TRUE
    /\ activeRooms = <<>>
    /\ inflight = <<>>
    /\ deck = <<>>
    /\ call = NoCall

NextEndgame == PlayCardEndgame \/ DrawCard \/ CallUno

SpecEndgame == InitEndgame /\ [][NextEndgame]_vars

-----------------------------------------------------------------------------
(* Requests awaiting the transport's response *)

\* A request is the call of a socketService method whose promise is pending.
\* A startGame request keeps the room that the call read: state.currentRoom
\* at line 205 is the room of the render that made the callback, and
\* initializeGameState reads its players array when the response comes.
\* players is the content of that array, aliased tells whether the current
\* room still holds the same array object, and live[j] whether the j-th
\* RoomPlayer object of the array is still a member of the current room's
\* array (HOST_CHANGED writes isHost on those objects).  superseded records, for
\* a createRoom or joinRoom request, that leaveRoom or a kick has been applied
\* since the call; the code keeps no such mark.  A getActiveRooms request
\* (loadActiveRooms, line 101) holds nothing of the room.
Request(kind, players) ==
    [kind |-> kind, players |-> players,
     live |-> [j \in DOMAIN players |-> TRUE],
     aliased |-> (kind = "startGame"), superseded |-> FALSE]

RemoveAt(s, i) == [j \in 1..(Len(s) - 1) |-> IF j < i THEN s[j] ELSE s[j + 1]]

\* Number of pending requests of the given kinds
Pending(reqs, kinds) == Cardinality({j \in DOMAIN reqs : reqs[j].kind \in kinds})

\* The array that PLAYER_JOINED pushes to (line 347) is the one a startGame
\* request holds as long as every room since the call is a shallow copy of
\* the room it read; PLAYER_LEFT gives the room a new array (line 356) of
\* the same objects less the filtered ones; HOST_CHANGED writes isHost on
\* every object of the current room's array (line 367).
requestsAfterRoomEvent(reqs, prev, event) ==
    [j \in DOMAIN reqs |->
        CASE reqs[j].kind = "getActiveRooms" -> reqs[j]
          [] prev.currentRoom # NoRoom /\ event.type = "PLAYER_JOINED" ->
                IF reqs[j].aliased
                THEN [reqs[j] EXCEPT !.players = Append(@, event.player),
                                     !.live = Append(@, TRUE)]
                ELSE reqs[j]
          [] prev.currentRoom # NoRoom /\ event.type = "PLAYER_LEFT" ->
                [reqs[j] EXCEPT
                    !.aliased = FALSE,
                    !.live = [k \in DOMAIN reqs[j].players |->
                                reqs[j].live[k]
                                /\ reqs[j].players[k].id # event.playerId]]
          [] prev.currentRoom # NoRoom /\ event.type = "HOST_CHANGED" ->
                [reqs[j] EXCEPT
                    !.players = [k \in DOMAIN reqs[j].players |->
                                   IF reqs[j].live[k]
                                   THEN [reqs[j].players[k] EXCEPT !.isHost =
                                           (reqs[j].players[k].id = event.newHostId)]
                                   ELSE reqs[j].players[k]]]
          [] event.type = "KICKED_FROM_ROOM" ->
                [reqs[j] EXCEPT !.aliased = FALSE, !.superseded = TRUE,
                                !.live = [k \in DOMAIN reqs[j].players |-> FALSE]]
          [] OTHER -> reqs[j]]

\* The room is dropped or replaced: no request shares its array or its
\* objects any longer.
requestsAfterRoomReplaced(reqs, leaving) ==
    [j \in DOMAIN reqs |->
        IF reqs[j].kind = "getActiveRooms"
        THEN reqs[j]
        ELSE [reqs[j] EXCEPT !.aliased = FALSE,
                             !.live = [k \in DOMAIN reqs[j].players |-> FALSE],
                             !.superseded = (@ \/ leaving)]]

-----------------------------------------------------------------------------
(* Room events applied to the local room *)

ApplyRoomEvent(event) ==
    /\ SetState(roomEventReducer(State, event))
    /\ inflight' = requestsAfterRoomEvent(inflight, State, event)
    /\ call' = [op |-> event.type, stream |-> "room", event |-> event]
    /\ UNCHANGED deck

PlayerJoined ==
    /\ currentRoom # NoRoom => Len(currentRoom.players) < MaxRoomPlayers
    /\ \E player \in JoiningPlayers :
         ApplyRoomEvent([type |-> "PLAYER_JOINED", player |-> player])

PlayerLeft ==
    /\ currentRoom # NoRoom =>
         Abs(currentRoom.currentPlayers - Len(currentRoom.players)) < MaxDrift
    /\ \E playerId \in PlayerIds :
         ApplyRoomEvent([type |-> "PLAYER_LEFT", playerId |-> playerId])

HostChanged ==
    \E newHostId \in PlayerIds \cup {UnknownId} :
        ApplyRoomEvent([type |-> "HOST_CHANGED", newHostId |-> newHostId])

GameStarted == ApplyRoomEvent([type |-> "GAME_STARTED"])

\* The client in a waiting room after createRoom (alone, host) or joinRoom
\* (second member, not host) has succeeded.
InitRoom ==
    /\ \/ /\ currentRoom = MakeRoom(<<LocalId>>, "waiting")
          /\ isHost = TRUE
       \/ /\ currentRoom = MakeRoom(<<"p2", LocalId>>, "waiting")
          /\ isHost = FALSE
    /\ currentPlayerId = LocalId
    /\ gameState = NoGame
    /\ error = NoError
    /\ loading = FALSE
    /\ isConnected = TRUE
    /\ activeRooms = <<>>
    /\ inflight = <<>>
    /\ deck = <<>>
    /\ call = NoCall

NextRoom == PlayerJoined \/ PlayerLeft \/ HostChanged \/ GameStarted

SpecRoom == InitRoom /\ [][NextRoom]_vars

-----------------------------------------------------------------------------
(* Dealing: initializeGameState on the room's roster and a shuffled deck *)

InitializeGame ==
    /\ currentRoom # NoRoom
    /\ gameState' = initializeGameState(currentRoom, deck)
    /\ call' = [op |-> "initializeGameState"]
    /\ UNCHANGED <<currentRoom, currentPlayerId, isHost, error, loading,
                   isConnected, activeRooms, inflight, deck>>

\* The host when startGame succeeds, its local roster being itself alone or,
\* after a PLAYER_LEFT that named it, empty (the server decides on the start:
\* the local roster may lag behind the server's).  deck is the order
\* shuffleDeck(createDeck()) returns.
InitDeal ==
    /\ currentRoom \in {MakeRoom(<<LocalId>>, "waiting"),
                        playerLeftUpdate(MakeRoom(<<LocalId>>, "waiting"), LocalId)}
    /\ currentPlayerId = LocalId
    /\ isHost = TRUE
    /\ gameState = NoGame
    /\ error = NoError
    /\ loading = FALSE
    /\ isConnected = TRUE
    /\ activeRooms = <<>>
    /\ inflight = <<>>
    /\ deck \in shuffleDeck(createDeck)
    /\ call = NoCall

NextDeal == InitializeGame

SpecDeal == InitDeal /\ [][NextDeal]_vars

-----------------------------------------------------------------------------
(* Housekeeping: clearError (318-320), checkConnection (31-42, at mount and *)
(* every second) and loadActiveRooms (94-106, at mount, every five seconds  *)
(* and on demand)                                                           *)

\* The lists of rooms the transport may report
ActiveRoomLists ==
    {<<>>, <<MakeRoom(<<"p2">>, "waiting")>>, <<MakeRoom(<<"p3">>, "waiting")>>}

ClearError ==
    /\ SetState(clearErrorUpdate(State))
    /\ call' = [op |-> "clearError"]
    /\ UNCHANGED <<inflight, deck>>

CheckConnection ==
    \E connected \in BOOLEAN :
        /\ SetState(checkConnectionUpdate(State, connected))
        /\ call' = [op |-> "checkConnection"]
        /\ UNCHANGED <<inflight, deck>>

\* loadActiveRooms up to its await: isSocketConnected is read at the call
\* (line 95); with the socket down the list is emptied (line 96), else
\* getActiveRooms is sent and the call returns to the event loop (line 101)
\* with the state as it was.
LoadActiveRooms ==
    \E connected \in BOOLEAN :
        /\ connected => Pending(inflight, {"getActiveRooms"}) < MaxLoading
        /\ IF connected
           THEN /\ inflight' = Append(inflight, Request("getActiveRooms", <<>>))
                /\ UNCHANGED <<currentRoom, currentPlayerId, isHost, gameState,
                               error, loading, isConnected, activeRooms>>
           ELSE /\ SetState(activeRoomsUpdate(State, <<>>))
                /\ UNCHANGED inflight
        /\ call' = [op |-> "loadActiveRooms", sent |-> connected]
        /\ UNCHANGED deck

\* loadActiveRooms from the response on: the list getActiveRooms resolves to
\* is stored (line 102), or its rejection is logged (line 104).
LoadActiveRoomsResponse ==
    \E i \in DOMAIN inflight :
        /\ inflight[i].kind = "getActiveRooms"
        /\ \/ \E rooms \in ActiveRoomLists :
                 /\ SetState(activeRoomsUpdate(State, rooms))
                 /\ call' = [op |-> "loadActiveRoomsResponse",
                             outcome |-> "resolved"]
           \/ /\ call' = [op |-> "loadActiveRoomsResponse",
                           outcome |-> "rejected"]
              /\ UNCHANGED <<currentRoom, currentPlayerId, isHost, gameState,
                             error, loading, isConnected, activeRooms>>
        /\ inflight' = RemoveAt(inflight, i)
        /\ UNCHANGED deck

Housekeeping ==
    \/ ClearError
    \/ CheckConnection
    \/ LoadActiveRooms
    \/ LoadActiveRoomsResponse

-----------------------------------------------------------------------------
(* The lobby: startGame and its response among the room events *)

\* The deck of the lobby model in the order the shuffle of line 47 returns
\* it: enough cards for a full roster, a top card and a draw pile.
lobbyDeck == [i \in 1..(HandSize * MaxRoomPlayers + 2) |-> MakeCard(i)]

\* What socketService.startGame may resolve to
StartResults ==
    {[success |-> TRUE, error |-> Undefined],
     [success |-> FALSE, error |-> "cannot start"],
     [success |-> FALSE, error |-> Undefined]}

\* startGame up to its await: the guard, then the request.  The lobby is
\* followed up to its first deal: a call that passes the guard is offered
\* while no game is installed and fewer than MaxStarting are pending; a call
\* that the guard refuses is always offered.
StartGame ==
    /\ startGameGuard(State) =>
         /\ Pending(inflight, {"startGame"}) < MaxStarting
         /\ gameState = NoGame
    /\ IF startGameGuard(State)
       THEN /\ inflight' = Append(inflight, Request("startGame", currentRoom.players))
            /\ call' = [op |-> "startGame", sent |-> TRUE]
       ELSE /\ inflight' = inflight
            /\ call' = [op |-> "startGame", sent |-> FALSE,
                        ret |-> FALSE]                        \* line 212
    /\ UNCHANGED <<currentRoom, currentPlayerId, isHost, gameState, error,
                   loading, isConnected, activeRooms, deck>>

\* startGame from the response on (lines 203-210); the roster dealt to is the
\* players array of the room the call read.
StartGameResponse ==
    \E i \in DOMAIN inflight, result \in StartResults :
        /\ inflight[i].kind = "startGame"
        /\ IF result.success
           THEN /\ gameState' = initializeGameState(
                                    [players |-> inflight[i].players], deck)
                /\ UNCHANGED error
           ELSE IF result.error # Undefined
           THEN /\ error' = result.error
                /\ UNCHANGED gameState
           ELSE UNCHANGED <<gameState, error>>
        /\ inflight' = RemoveAt(inflight, i)
        /\ call' = [op |-> "startGameResponse", ret |-> result.success]
        /\ UNCHANGED <<currentRoom, currentPlayerId, isHost, loading,
                       isConnected, activeRooms, deck>>

Kicked == ApplyRoomEvent([type |-> "KICKED_FROM_ROOM"])

\* PLAYER_JOINED for a player who is not in the local roster, of at most
\* limit members
MemberJoinedWithin(limit) ==
    /\ currentRoom # NoRoom => Len(currentRoom.players) < limit
    /\ \E player \in JoiningPlayers :
         /\ currentRoom # NoRoom => CountId(currentRoom.players, player.id) = 0
         /\ ApplyRoomEvent([type |-> "PLAYER_JOINED", player |-> player])

MemberJoined == MemberJoinedWithin(MaxRoomPlayers)

LobbyMemberJoined == MemberJoinedWithin(MaxLobbyPlayers)

\* PLAYER_LEFT for a player who is in the local roster
MemberLeft ==
    \E playerId \in PlayerIds :
        /\ currentRoom # NoRoom => CountId(currentRoom.players, playerId) > 0
        /\ ApplyRoomEvent([type |-> "PLAYER_LEFT", playerId |-> playerId])

\* The client in a waiting room after createRoom (alone, host) or joinRoom
\* (second member, not host) has succeeded.
InitLobby ==
    /\ \/ /\ currentRoom = MakeRoom(<<LocalId>>, "waiting")
          /\ isHost = TRUE
       \/ /\ currentRoom = MakeRoom(<<"p2", LocalId>>, "waiting")
          /\ isHost = FALSE
    /\ currentPlayerId = LocalId
    /\ gameState = NoGame
    /\ error = NoError
    /\ loading = FALSE
    /\ isConnected = TRUE
    /\ activeRooms = <<>>
    /\ inflight = <<>>
    /\ deck = lobbyDeck
    /\ call = NoCall

NextLobby ==
    \/ StartGame
    \/ StartGameResponse
    \/ LobbyMemberJoined
    \/ MemberLeft
    \/ HostChanged
    \/ Kicked
    \/ Housekeeping

SpecLobby == InitLobby /\ [][NextLobby]_vars

-----------------------------------------------------------------------------
(* The session: createRoom, joinRoom and leaveRoom with their responses *)

\* What socketService.createRoom may resolve to: the new room, whose host is
\* the creator, or a refusal, or a rejected promise.
CreateResults ==
    {[outcome |-> "success", room |-> MakeRoom(<<LocalId>>, "waiting"),
      playerId |-> LocalId, error |-> Undefined],
     [outcome |-> "failure", room |-> NoRoom, playerId |-> NullId,
      error |-> Undefined],
     [outcome |-> "throw", room |-> NoRoom, playerId |-> NullId,
      error |-> Undefined]}

\* What socketService.joinRoom may resolve to: a room whose host is another
\* player and whose last member is the joiner, or a refusal, or a rejected
\* promise.
JoinResults ==
    {[outcome |-> "success", room |-> MakeRoom(<<"p2", LocalId>>, "waiting"),
      playerId |-> LocalId, error |-> Undefined],
     [outcome |-> "success", room |-> MakeRoom(<<LocalId, "p3">>, "waiting"),
      playerId |-> "p3", error |-> Undefined],
     [outcome |-> "failure", room |-> NoRoom, playerId |-> NullId,
      error |-> "room is full"],
     [outcome |-> "throw", room |-> NoRoom, playerId |-> NullId,
      error |-> Undefined]}

\* A request for a room is sent: kind is "createRoom" or "joinRoom".
RoomRequest(kind) ==
    /\ Pending(inflight, {"createRoom", "joinRoom"}) < MaxInflight
    /\ SetState(requestStarted(State))
    /\ inflight' = Append(inflight, Request(kind, <<>>))
    /\ call' = [op |-> kind]
    /\ UNCHANGED deck

\* The response to the i-th request: next is the state it leaves.
RoomResponse(i, result, next) ==
    /\ SetState(next)
    /\ inflight' = IF result.outcome = "success"
                   THEN requestsAfterRoomReplaced(RemoveAt(inflight, i), FALSE)
                   ELSE RemoveAt(inflight, i)
    /\ call' = [op |-> inflight[i].kind \o "Response",
                request |-> inflight[i], result |-> result]
    /\ UNCHANGED deck

CreateRoom == RoomRequest("createRoom")

CreateRoomResponse ==
    \E i \in DOMAIN inflight, result \in CreateResults :
        /\ inflight[i].kind = "createRoom"
        /\ RoomResponse(i, result, createRoomSettled(State, result))

JoinRoom == RoomRequest("joinRoom")

JoinRoomResponse ==
    \E i \in DOMAIN inflight, result \in JoinResults :
        /\ inflight[i].kind = "joinRoom"
        /\ RoomResponse(i, result, joinRoomSettled(State, result))

LeaveRoom ==
    /\ SetState(leaveRoomUpdate(State))
    /\ inflight' = requestsAfterRoomReplaced(inflight, TRUE)
    /\ call' = [op |-> "leaveRoom"]
    /\ UNCHANGED deck

\* The hook as useState constructs it (lines 19-28)
InitSession ==
    /\ currentRoom = NoRoom
    /\ currentPlayerId = NullId
    /\ isHost = FALSE
    /\ activeRooms = <<>>
    /\ loading = FALSE
    /\ error = NoError
    /\ isConnected = FALSE
    /\ gameState = NoGame
    /\ inflight = <<>>
    /\ deck = <<>>
    /\ call = NoCall

NextSession ==
    \/ CreateRoom
    \/ CreateRoomResponse
    \/ JoinRoom
    \/ JoinRoomResponse
    \/ LeaveRoom
    \/ HostChanged
    \/ PlayerLeft
    \/ Kicked
    \/ Housekeeping

SpecSession == InitSession /\ [][NextSession]_vars

-----------------------------------------------------------------------------
(* The three event streams with every tag, handled or not *)

ApplyGameEvent(event) ==
    /\ SetState(gameEventReducer(State, event))
    /\ call' = [op |-> event.type, stream |-> "game", event |-> event]
    /\ UNCHANGED <<inflight, deck>>

ApplyGlobalEvent(event) ==
    /\ SetState(globalEventReducer(State, event))
    /\ call' = [op |-> event.type, stream |-> "global", event |-> event]
    /\ UNCHANGED <<inflight, deck>>

\* The snapshots that GAME_STATE_UPDATE carries: a game as a host's
\* initializeGameState broadcasts it (line 90).
BroadcastSnapshots ==
    {initializeGameState(MakeRoom(<<"p2", LocalId>>, "playing"), lobbyDeck),
     initializeGameState(MakeRoom(<<LocalId>>, "playing"), lobbyDeck)}

\* The tags with a case of their own on each stream
HandledTags(stream) ==
    CASE stream = "room" -> {"PLAYER_JOINED", "PLAYER_LEFT", "HOST_CHANGED",
                             "GAME_STARTED", "KICKED_FROM_ROOM"}
      [] stream = "game" -> {"GAME_STATE_UPDATE"}
      [] stream = "global" -> {"ROOMS_UPDATED", "CONNECTION_FAILED"}

\* Events of the room stream without a case: the three other tags of the
\* RoomEvent type, a tag of another stream, a tag of no stream.
OtherRoomEvents ==
    {[type |-> "PLAYER_KICKED", playerId |-> p] : p \in PlayerIds}
    \cup {[type |-> "ROOM_UPDATED", room |-> MakeRoom(<<"p2">>, "waiting")],
          [type |-> "GAME_ENDED"],
          [type |-> "UNRECOGNIZED"]}
    \cup {[type |-> "GAME_STATE_UPDATE", gameState |-> gs] : gs \in BroadcastSnapshots}

OtherGameEvents ==
    {[type |-> t] : t \in {"CARD_PLAYED", "CARD_DRAWN", "UNO_CALLED",
                            "KICKED_FROM_ROOM", "UNRECOGNIZED"}}

OtherGlobalEvents ==
    {[type |-> "PLAYER_LEFT", playerId |-> p] : p \in PlayerIds}
    \cup {[type |-> "UNRECOGNIZED"]}

OtherRoomEvent == \E event \in OtherRoomEvents : ApplyRoomEvent(event)

GameStateUpdate ==
    \E gs \in BroadcastSnapshots :
        ApplyGameEvent([type |-> "GAME_STATE_UPDATE", gameState |-> gs])

OtherGameEvent == \E event \in OtherGameEvents : ApplyGameEvent(event)

RoomsUpdated ==
    \E rooms \in ActiveRoomLists :
        ApplyGlobalEvent([type |-> "ROOMS_UPDATED", rooms |-> rooms])

ConnectionFailed == ApplyGlobalEvent([type |-> "CONNECTION_FAILED"])

OtherGlobalEvent == \E event \in OtherGlobalEvents : ApplyGlobalEvent(event)

InitEvents == InitRoom

NextEvents ==
    \/ MemberJoined
    \/ MemberLeft
    \/ HostChanged
    \/ GameStarted
    \/ Kicked
    \/ OtherRoomEvent
    \/ GameStateUpdate
    \/ OtherGameEvent
    \/ RoomsUpdated
    \/ ConnectionFailed
    \/ OtherGlobalEvent
    \/ Housekeeping

SpecEvents == InitEvents /\ [][NextEvents]_vars

-----------------------------------------------------------------------------
(* Vocabulary of the properties *)

\* Sum of f[j] over j in 1..n
RECURSIVE SumTo(_, _)
SumTo(f, n) == IF n = 0 THEN 0 ELSE f[n] + SumTo(f, n - 1)

\* Number of places (hands, drawPile, discardPile) of gs that hold card id
Occurrences(gs, id) ==
    CountId(gs.drawPile, id) + CountId(gs.discardPile, id)
    + SumTo([j \in DOMAIN gs.players |-> CountId(gs.players[j].cards, id)],
            Len(gs.players))

\* Number of cards in the hands and the two piles of gs
TotalCards(gs) ==
    Len(gs.drawPile) + Len(gs.discardPile)
    + SumTo([j \in DOMAIN gs.players |-> Len(gs.players[j].cards)],
            Len(gs.players))

\* The id of players[currentPlayerIndex]
CurrentId(gs) == gs.players[gs.currentPlayerIndex + 1].id

\* The hand of the first player with this id
HandOf(gs, playerId) == gs.players[FindIndex(gs.players, playerId)].cards

InGame(gs, playerId) == FindIndex(gs.players, playerId) # 0

\* The step is a playCard call that reached the updater
PlayStep ==
    /\ call'.op = "playCard"
    /\ gameState # NoGame
    /\ currentPlayerId # NullId

\* The step is a playCard call by the current player whose card left the hand
\* non-empty / emptied it
PlayedByCurrent ==
    /\ PlayStep
    /\ call'.playerId = CurrentId(gameState)
    /\ CountId(HandOf(gameState, call'.playerId), call'.card.id) > 0

-----------------------------------------------------------------------------
(* C1..C10 *)

\* C1: card conservation in the turn engine: from a GameState whose hands and
\* piles partition the deck, after any playCard, drawCard and callUno calls
\* every card id of the deck lies in exactly one place.
C1_CardConservation ==
    gameState # NoGame =>
        \A i \in 1..GameDeckSize : Occurrences(gameState, i) = 1

\* C2: after initializeGameState the hands, drawPile and discardPile hold as
\* many cards as the deck and each card id exactly once, for every deck order.
C2_DealPartitionsDeck ==
    call.op = "initializeGameState" =>
        /\ TotalCards(gameState) = Len(deck)
        /\ \A i \in 1..DeckSize : Occurrences(gameState, i) = 1

\* C3: playCard by a player who is not players[currentPlayerIndex] leaves the
\* GameState unchanged and reports NotYourTurn to the caller.
C3_NotYourTurnReported ==
    [][(call'.op = "playCard" /\ gameState # NoGame
            /\ call'.playerId # CurrentId(gameState))
        => (gameState' = gameState /\ call'.ret = "NotYourTurn")]_vars

\* C4: playCard by the current player with a card that is not in the hand is
\* rejected: discardPile, topCard and currentPlayerIndex stay as they are.
C4_CardNotInHandRejected ==
    [][(PlayStep /\ call'.playerId = CurrentId(gameState)
            /\ CountId(HandOf(gameState, call'.playerId), call'.card.id) = 0)
        => /\ gameState'.discardPile = gameState.discardPile
           /\ gameState'.topCard = gameState.topCard
           /\ gameState'.currentPlayerIndex = gameState.currentPlayerIndex]_vars

\* C5: a second PLAYER_JOINED with the same player id changes nothing: the id
\* is in the players list once and currentPlayers is as after the first.
C5_PlayerJoinedIdempotent ==
    [][(call.op = "PLAYER_JOINED" /\ call'.op = "PLAYER_JOINED"
            /\ call'.event.player.id = call.event.player.id
            /\ currentRoom # NoRoom)
        => /\ CountId(currentRoom'.players, call'.event.player.id) = 1
           /\ currentRoom'.currentPlayers = currentRoom.currentPlayers]_vars

\* C6: after HOST_CHANGED on a room with at least one player, exactly one
\* RoomPlayer has isHost = TRUE, whatever newHostId is.
C6_ExactlyOneHost ==
    (call.op = "HOST_CHANGED" /\ currentRoom # NoRoom
        /\ Len(currentRoom.players) >= 1)
    => Cardinality({j \in DOMAIN currentRoom.players :
                        currentRoom.players[j].isHost}) = 1

\* C7: in every reachable room state currentPlayers is the length of the
\* players list.
C7_CountMatchesList ==
    currentRoom # NoRoom =>
        currentRoom.currentPlayers = Len(currentRoom.players)

\* What drawCard(playerId, k) promises for a player in the game: it returns
\* min(k, drawPile.length) cards, popped from the tail of drawPile one by one,
\* which leave drawPile and are appended to the player's hand.
DrawPostcondition ==
    LET k == call'.count
        n == Len(gameState.drawPile)
        m == Min(k, n)
        pi == FindIndex(gameState.players, call'.playerId)
    IN  /\ Len(call'.ret) = m
        /\ \A j \in 1..m : call'.ret[j] = gameState.drawPile[n - j + 1]
        /\ gameState'.drawPile = SubSeq(gameState.drawPile, 1, n - m)
        /\ gameState'.players[pi].cards =
              gameState.players[pi].cards \o call'.ret

\* C8 as stated: every drawCard(playerId, k) for a player in the game returns
\* exactly min(k, drawPile.length) cards from the tail of drawPile, drawPile
\* shrinks and the hand grows by these cards.
C8_DrawReturnsMin_AnyClient ==
    [][(call'.op = "drawCard" /\ gameState # NoGame
            /\ InGame(gameState, call'.playerId))
        => DrawPostcondition]_vars

\* C8: while the client holds a currentPlayerId, drawCard(playerId, k) for a
\* player in the game returns exactly min(k, drawPile.length) cards from the
\* tail of drawPile, drawPile shrinks and the hand grows by these cards.
C8_DrawReturnsMin ==
    [][(call'.op = "drawCard" /\ gameState # NoGame
            /\ currentPlayerId # NullId
            /\ InGame(gameState, call'.playerId))
        => DrawPostcondition]_vars

\* C8 witness: a draw of two cards from a drawPile of one returned that one card.
C8_Witness ==
    /\ call.op = "drawCard"
    /\ currentPlayerId # NullId
    /\ call.count = 2
    /\ Len(call.ret) = 1
    /\ InGame(gameState, call.playerId)
    /\ HandOf(gameState, call.playerId)[Len(HandOf(gameState, call.playerId))]
         = call.ret[1]

\* C9: a playCard by the current player that empties the hand sets gamePhase
\* to finished and winner to that player, and leaves currentPlayerIndex.
C9_WinFinishesGame ==
    [][(PlayedByCurrent /\ Len(HandOf(gameState', call'.playerId)) = 0)
        => /\ gameState'.gamePhase = "finished"
           /\ gameState'.winner = call'.playerId
           /\ gameState'.currentPlayerIndex = gameState.currentPlayerIndex]_vars

\* C9 witness: the last call was a play of the card now on top, by the player
\* who is still the current one, whose hand is empty and who has won.
C9_Witness ==
    /\ call.op = "playCard"
    /\ gameState # NoGame
    /\ call.playerId = CurrentId(gameState)
    /\ Len(HandOf(gameState, call.playerId)) = 0
    /\ gameState.topCard = call.card
    /\ gameState.gamePhase = "finished"
    /\ gameState.winner = call.playerId
    /\ Occurrences(gameState, call.card.id) = 1

\* C10: a successful playCard that leaves the hand non-empty advances
\* currentPlayerIndex by one in the current direction, modulo the roster size.
C10_AdvanceInDirection ==
    [][(PlayedByCurrent /\ Len(HandOf(gameState', call'.playerId)) > 0)
        => gameState'.currentPlayerIndex =
              (gameState.currentPlayerIndex
                + (IF gameState.direction = "clockwise" THEN 1 ELSE -1))
              % Len(gameState.players)]_vars

-----------------------------------------------------------------------------
(* C11..C20 *)

\* The ids of a list of players, in order
IdsOf(players) == [j \in DOMAIN players |-> players[j].id]

\* C11: startGame by a client whose isHost flag is false returns false, sends
\* no start request, and leaves the room (its status with it) and gameState
\* as they are.
C11_NonHostStartRefused ==
    [][(call'.op = "startGame" /\ ~isHost)
        => /\ ~call'.sent
           /\ call'.ret = FALSE
           /\ inflight' = inflight
           /\ currentRoom' = currentRoom
           /\ gameState' = gameState]_vars

\* C11 witness: a member who is not the host has called startGame in a waiting
\* room: the call returned false and nothing is in flight.
C11_Witness ==
    /\ call.op = "startGame"
    /\ ~call.sent
    /\ call.ret = FALSE
    /\ ~isHost
    /\ currentRoom # NoRoom
    /\ currentRoom.status = "waiting"
    /\ currentRoom.hostId # currentPlayerId
    /\ inflight = <<>>
    /\ gameState = NoGame

\* C12: KICKED_FROM_ROOM, in any state, leaves currentRoom null,
\* currentPlayerId null, isHost false and gameState null.
C12_KickClearsSession ==
    [][(call'.op = "KICKED_FROM_ROOM" /\ call'.stream = "room")
        => /\ currentRoom' = NoRoom
           /\ currentPlayerId' = NullId
           /\ isHost' = FALSE
           /\ gameState' = NoGame]_vars

\* C12 witness: the kick has been applied and the session is cleared.
C12_Witness ==
    /\ call.op = "KICKED_FROM_ROOM"
    /\ call.stream = "room"
    /\ currentRoom = NoRoom
    /\ currentPlayerId = NullId
    /\ ~isHost
    /\ gameState = NoGame
    /\ error = "kicked"


\* C13: after initializeGameState on a roster of n players and a deck of at
\* least 7n+1 cards, player j holds the 7 cards deck[j], deck[n+j], ... (dealt
\* round-robin in roster order), drawPile has deckSize-7n-1 cards, discardPile
\* is [topCard], currentPlayerIndex is 0 and gamePhase is playing.
C13_DealPostcondition ==
    (call.op = "initializeGameState"
        /\ Len(deck) >= HandSize * Len(currentRoom.players) + 1)
    => LET n == Len(currentRoom.players)
       IN  /\ Len(gameState.players) = n
           /\ \A j \in 1..n :
                 /\ gameState.players[j].id = currentRoom.players[j].id
                 /\ gameState.players[j].cards =
                       [r \in 1..HandSize |-> deck[(r - 1) * n + j]]
           /\ Len(gameState.drawPile) = Len(deck) - HandSize * n - 1
           /\ gameState.discardPile = <<gameState.topCard>>
           /\ gameState.currentPlayerIndex = 0
           /\ gameState.gamePhase = "playing"

\* C14: callUno(playerId) sets hasCalledUno of that player when the hand holds
\* exactly one card; for any other hand size or an unknown id no hasCalledUno,
\* no hand and no pile changes.
C14_UnoOnlyWithOneCard ==
    [][(call'.op = "callUno" /\ gameState # NoGame)
        => LET pi == FindIndex(gameState.players, call'.playerId)
               one == pi # 0 /\ Len(gameState.players[pi].cards) = 1
           IN  /\ gameState'.drawPile = gameState.drawPile
               /\ gameState'.discardPile = gameState.discardPile
               /\ DOMAIN gameState'.players = DOMAIN gameState.players
               /\ \A j \in DOMAIN gameState.players :
                     /\ gameState'.players[j].cards = gameState.players[j].cards
                     /\ gameState'.players[j].hasCalledUno =
                           (gameState.players[j].hasCalledUno \/ (one /\ j = pi))]_vars

\* C14 witness: the last call was callUno by a player who holds one card and
\* whose flag is set, while another player's flag is not.
C14_Witness ==
    /\ call.op = "callUno"
    /\ gameState # NoGame
    /\ InGame(gameState, call.playerId)
    /\ Len(HandOf(gameState, call.playerId)) = 1
    /\ gameState.players[FindIndex(gameState.players, call.playerId)].hasCalledUno
    /\ \E j \in DOMAIN gameState.players : ~gameState.players[j].hasCalledUno

\* What drawCard leaves alone: the turn, the top card, the discard pile, the
\* wild colour, the phase, the winner and the hands of the other players.
DrawFrame ==
    /\ gameState'.currentPlayerIndex = gameState.currentPlayerIndex
    /\ gameState'.topCard = gameState.topCard
    /\ gameState'.discardPile = gameState.discardPile
    /\ gameState'.wildColor = gameState.wildColor
    /\ gameState'.gamePhase = gameState.gamePhase
    /\ gameState'.winner = gameState.winner
    /\ \A j \in DOMAIN gameState.players :
          gameState.players[j].id # call'.playerId
            => gameState'.players[j].cards = gameState.players[j].cards

\* C15: when startGame succeeds, the players of the GameState it creates are
\* the roster the room has when the response is processed, in roster order,
\* whatever PLAYER_JOINED and PLAYER_LEFT events came since the call.
C15_DealsToCurrentRoster ==
    [][(call'.op = "startGameResponse" /\ call'.ret = TRUE
            /\ currentRoom # NoRoom)
        => IdsOf(gameState'.players) = IdsOf(currentRoom.players)]_vars

\* C16 as stated: a drawCard by any player in the game, current or not,
\* succeeds (it returns min(count, drawPile.length) cards) and leaves the
\* turn, topCard, discardPile, wildColor, gamePhase, winner and every other
\* player's hand unchanged.
C16_DrawIsNotATurn_AnyClient ==
    [][(call'.op = "drawCard" /\ gameState # NoGame
            /\ InGame(gameState, call'.playerId))
        => /\ Len(call'.ret) = Min(call'.count, Len(gameState.drawPile))
           /\ DrawFrame]_vars

\* C16: while the client holds a currentPlayerId, a drawCard by any player in
\* the game, current or not, returns min(count, drawPile.length) cards and
\* leaves the turn, topCard, discardPile, wildColor, gamePhase, winner and
\* every other player's hand unchanged.
C16_DrawIsNotATurn ==
    [][(call'.op = "drawCard" /\ gameState # NoGame
            /\ currentPlayerId # NullId
            /\ InGame(gameState, call'.playerId))
        => /\ Len(call'.ret) = Min(call'.count, Len(gameState.drawPile))
           /\ DrawFrame]_vars

\* C16 witness: a player who is not the current one has just drawn a card.
C16_Witness ==
    /\ call.op = "drawCard"
    /\ currentPlayerId # NullId
    /\ gameState # NoGame
    /\ InGame(gameState, call.playerId)
    /\ call.playerId # CurrentId(gameState)
    /\ Len(call.ret) >= 1
    /\ HandOf(gameState, call.playerId)[Len(HandOf(gameState, call.playerId))]
         = call.ret[Len(call.ret)]

\* C17: an event whose tag has no case on the stream it arrives on (the other
\* RoomEvent tags on the room stream, CARD_PLAYED, CARD_DRAWN and UNO_CALLED
\* on the game stream, any other tag on any stream) leaves the whole state as
\* it is, the error field included.
C17_UnhandledEventIgnored ==
    [][("stream" \in DOMAIN call' /\ call'.op \notin HandledTags(call'.stream))
        => UNCHANGED <<currentRoom, currentPlayerId, isHost, gameState, error,
                       loading, isConnected, activeRooms, inflight>>]_vars

\* C17 witness: CARD_DRAWN has come on the game stream to a client in a room
\* with a game, and both are still there.
C17_Witness ==
    /\ call.op = "CARD_DRAWN"
    /\ call.stream = "game"
    /\ currentRoom # NoRoom
    /\ gameState # NoGame
    /\ error = NoError

\* C18: once gamePhase is finished and a winner is set, no playCard, drawCard
\* or callUno call changes the winner or the phase.
C18_WinnerIsFinal ==
    [][(call'.op \in {"playCard", "drawCard", "callUno"}
            /\ gameState # NoGame
            /\ gameState.gamePhase = "finished"
            /\ gameState.winner # Undefined)
        => /\ gameState'.gamePhase = "finished"
           /\ gameState'.winner = gameState.winner]_vars

\* C19: after leaveRoom or KICKED_FROM_ROOM, currentRoom and currentPlayerId
\* stay null until a createRoom or joinRoom issued afterwards succeeds: the
\* response to a request that was in flight when the leave or kick was
\* applied installs no room.
C19_NoStaleInstall ==
    [][(call'.op \in {"createRoomResponse", "joinRoomResponse"}
            /\ call'.request.superseded
            /\ currentRoom = NoRoom)
        => /\ currentRoom' = NoRoom
           /\ currentPlayerId' = NullId]_vars

\* C20: isHost is true exactly when the client is in a room whose hostId is
\* its own id, across createRoom, joinRoom, leaveRoom and HOST_CHANGED,
\* PLAYER_LEFT and KICKED_FROM_ROOM in any order, the transport answering
\* createRoom with a room hosted by the creator and joinRoom with a room
\* hosted by another player.
C20_IsHostMatchesHostId ==
    isHost <=> (currentRoom # NoRoom /\ currentRoom.hostId = currentPlayerId)

\* C20 witness: a client that joined a room of two has become its host by
\* HOST_CHANGED.
C20_Witness ==
    /\ call.op = "HOST_CHANGED"
    /\ isHost
    /\ currentRoom # NoRoom
    /\ currentRoom.hostId = currentPlayerId
    /\ currentRoom.players[1].id # currentPlayerId
    /\ Len(currentRoom.players) = 2

====
